---- MODULE Spec2Model ----
(***************************************************************************)
(* Email ingestion and routing engine of the ticket tracker:               *)
(* EmailPollingService.poll_inbox and its helpers, the shared store        *)
(* (tickets, standby queue, processed-email records, boards, inboxes),     *)
(* the IMAP mailboxes and the ticket identifier allocation.                *)
(***************************************************************************)
EXTENDS Integers, Sequences, FiniteSets, TLC

\* ------------------------------------------------------------------ bounds
MaxTime == 61         \* the clock stops advancing here
MaxMail == 2          \* messages ever delivered, over all mailboxes
MaxCycles == 2        \* poll cycles ever started, over all inboxes
MaxUuid == 3          \* size of the identifier space uuid4 draws from
MaxFaults == 1        \* failures of the store or the mail server ever injected
MaxApi == 1           \* ticket creations through the web form / standby assignment
MaxFire == 3          \* triggers the scheduler ever fires
MaxTokens == 2        \* rows manager_tokens ever holds

\* -------------------------------------------------------- program constants
DUPLICATE_EMAIL_THRESHOLD_MINUTES == 60
polling_interval == 5             \* default of email_inboxes.polling_interval
max_instances == 1                \* of every polling job
VERIFICATION_TOKEN_MINUTES == 1440 \* timedelta(hours=24)
RESET_TOKEN_MINUTES == 60         \* timedelta(hours=1)
max_attempts == 10

\* ------------------------------------------------------------ the universe
NULL == 0 - 1                     \* SQL NULL in a nullable integer / timestamp column
Managers == {1, 2}
InboxIds == {1, 2}                \* inbox ids: a mailbox and a scheduler job each
Boards == {1, 2}
UUIDs == 1..MaxUuid
TickSteps == {60, 61}             \* minutes that pass between two observations of the clock

ToLowerChar(c) ==
    CASE c = "B" -> "b"
      [] c = "O" -> "o"
      [] c = "K" -> "k"
      [] OTHER -> c

\* a comparison that keeps the case
Lower_AsIs(s) == s

\* str.lower()
Lower(s) == [k \in 1..Len(s) |-> ToLowerChar(s[k])]

\* `needle in haystack` on str
Contains(needle, haystack) ==
    \E off \in 0..(Len(haystack) - Len(needle)) :
        \A k \in 1..Len(needle) : haystack[off + k] = needle[k]

SubjBug == <<"B", "u", "g">>
SubjOk == <<"o", "k">>
FromPlain == <<"u@x">>
FromNamed == <<"Bob", "<", "u@x", ">">>
BodyHi == <<"h", "i">>

\* raw RFC822 payloads the mail server may hold
RawEmails ==
    { [message_id |-> <<"a">>, from |-> FromPlain, subject |-> SubjBug, body |-> BodyHi,
        malformed |-> FALSE],
      [message_id |-> <<"a">>, from |-> FromNamed, subject |-> SubjOk, body |-> BodyHi,
        malformed |-> FALSE],
      [message_id |-> <<>>, from |-> <<>>, subject |-> SubjOk, body |-> BodyHi,
        malformed |-> TRUE] }

\* a subject and a body longer than the columns they go to
LongSubject == SubjBug \o [k \in 1..297 |-> "x"]     \* 300 characters
LongBody == [k \in 1..6001 |-> "y"]
LongEmails ==
    { [message_id |-> <<"l">>, from |-> FromNamed, subject |-> LongSubject, body |-> LongBody,
        malformed |-> FALSE],
      [message_id |-> <<"s">>, from |-> FromPlain, subject |-> SubjBug, body |-> BodyHi,
        malformed |-> FALSE] }

VARIABLES
    now,          \* wall clock, minutes
    inboxes,      \* email_inboxes rows
    boards,       \* boards rows
    keywords,     \* board_keywords rows
    external,     \* uuids of external_tickets rows
    tickets,      \* tickets rows, in id order
    standby,      \* standby_queue_items rows, in id order
    processed,    \* processed_emails rows, in id order
    mailbox,      \* per inbox: the INBOX folder on the IMAP server
    pc,           \* per job: where poll_inbox stands
    session,      \* per job: imap_client is not None
    emails,       \* per job: the list returned by _fetch_unread_emails
    idx,          \* per job: position of the for loop in emails
    pending,      \* per job: the ticket _create_ticket is about to commit
    fetch_ok,     \* per job: _fetch_unread_emails of the latest call swallowed no exception
    result,       \* per job: how the last call of poll_inbox ended
    api,          \* the request creating a ticket outside the poller
    sent,         \* confirmation notifications handed to the email service, in order
    jobs,         \* the scheduler's job store: one record per registered job
    running,      \* the executor's job runs in flight
    dropped,      \* triggers the executor refused, in order
    fired,        \* history: triggers fired
    sched_op,     \* history: the latest add_polling_job / remove_polling_job call
    status_changes, \* ticket_status_changes rows, in id order
    change,       \* per request: change_ticket_state between its query and its commit
    managers,     \* managers rows
    tokens,       \* manager_tokens rows, in id order
    redeem,       \* per request: a token redemption between its query and its commit
    cycles,       \* history: poll cycles started
    delivered,    \* history: messages delivered
    faults_seen,  \* history: failures of the store or the mail server so far
    route_log,    \* history: the runs of the except branch of _route_email
    requests      \* history: ticket creations started outside the poller

vars == <<now, inboxes, boards, keywords, external, tickets, standby, processed,
          mailbox, pc, session, emails, idx, pending, fetch_ok, result, api,
          cycles, delivered, faults_seen, requests, route_log, sent, jobs, running, dropped,
          fired, sched_op, status_changes, change, managers, tokens, redeem>>

storeVars == <<tickets, standby, processed>>
configVars == <<boards, keywords, external>>
jobVars == <<pc, session, emails, idx, pending, fetch_ok, result>>
histVars == <<cycles, delivered, faults_seen, requests, route_log>>
schedVars == <<jobs, running, dropped, fired, sched_op>>
ticketVars == <<status_changes, change>>
authVars == <<managers, tokens, redeem>>
\* everything the polling engine never touches
otherVars == <<schedVars, ticketVars, authVars>>

\* ------------------------------------------------------------ pure helpers
Min(a, b) == IF a <= b THEN a ELSE b

TITLE_MAX == 255
DESCRIPTION_MAX == 6000

\* s[:n]
Take(s, n) == SubSeq(s, 1, Min(Len(s), n))

\* position of the first element of s that lies in toks, Len(s) + 1 if none
FirstOf(toks, s) ==
    IF \E k \in 1..Len(s) : s[k] \in toks
    THEN CHOOSE k \in 1..Len(s) : s[k] \in toks /\ \A j \in 1..(k - 1) : s[j] \notin toks
    ELSE Len(s) + 1

\* sender.split('<')[1].split('>')[0] when the From header wraps the address
ParseSender(from) ==
    IF \E k \in 1..Len(from) : from[k] = "<"
    THEN LET rest == SubSeq(from, FirstOf({"<"}, from) + 1, Len(from))
         IN SubSeq(rest, 1, FirstOf({"<", ">"}, rest) - 1)
    ELSE from

\* _parse_email: a payload that cannot be parsed yields the placeholder record
_parse_email(raw) ==
    IF raw.malformed
    THEN [message_id |-> <<>>, sender |-> <<>>, subject |-> <<"Failed to parse subject">>,
          body |-> <<"Failed to parse email body">>]
    ELSE [message_id |-> raw.message_id, sender |-> ParseSender(raw.from),
          subject |-> raw.subject, body |-> raw.body]

\* _hash_subject: SHA-256 of the exact (case-sensitive) subject
_hash_subject(subject) == [sha256 |-> subject]

\* a check that looks at the records of every inbox
_is_duplicate_AnyInbox(proc, inbox_id, sender, subject_hash, t) ==
    \E k \in 1..Len(proc) :
        /\ proc[k].sender_email = sender
        /\ proc[k].subject_hash = subject_hash
        /\ proc[k].processed_at >= t - DUPLICATE_EMAIL_THRESHOLD_MINUTES

\* _is_duplicate
_is_duplicate(proc, inbox_id, sender, subject_hash, t) ==
    \E k \in 1..Len(proc) :
        /\ proc[k].inbox_id = inbox_id
        /\ proc[k].sender_email = sender
        /\ proc[k].subject_hash = subject_hash
        /\ proc[k].processed_at >= t - DUPLICATE_EMAIL_THRESHOLD_MINUTES

\* priority 1 of _route_email: the rows .first() may return
ExclusiveBoards(inbox_id) ==
    {b \in Boards : boards[b].exclusive_inbox_id = inbox_id /\ ~boards[b].is_archived}

\* the keyword query without its exclusive_inbox_id filter
KeywordBoards_AnyBinding(inbox_id, subject) ==
    {kw.board_id : kw \in
        {k \in keywords :
            /\ boards[k.board_id].manager_id = inboxes[inbox_id].manager_id
            /\ ~boards[k.board_id].is_archived
            /\ Contains(Lower(k.keyword), Lower(subject))}}

\* priority 2 of _route_email: boards of the first keyword row that matches,
\* for every order in which the unordered query may list the rows
KeywordBoards(inbox_id, subject) ==
    {kw.board_id : kw \in
        {k \in keywords :
            /\ boards[k.board_id].manager_id = inboxes[inbox_id].manager_id
            /\ boards[k.board_id].exclusive_inbox_id = NULL
            /\ ~boards[k.board_id].is_archived
            /\ Contains(Lower(k.keyword), Lower(subject))}}

\* the two priorities swapped: keywords are tried before the exclusive inbox
RouteTargets_KeywordsFirst(inbox_id, subject, faults) ==
    IF "route_query" \in faults THEN {[kind |-> "error", board |-> 0]}
    ELSE IF KeywordBoards(inbox_id, subject) # {}
    THEN {[kind |-> "board", board |-> b] : b \in KeywordBoards(inbox_id, subject)}
    ELSE IF ExclusiveBoards(inbox_id) # {}
    THEN {[kind |-> "board", board |-> b] : b \in ExclusiveBoards(inbox_id)}
    ELSE {[kind |-> "none", board |-> 0]}

\* what the try block of _route_email decides before it materializes anything
RouteTargets(inbox_id, subject, faults) ==
    IF "route_query" \in faults THEN {[kind |-> "error", board |-> 0]}
    ELSE IF ExclusiveBoards(inbox_id) # {}
    THEN {[kind |-> "board", board |-> b] : b \in ExclusiveBoards(inbox_id)}
    ELSE IF KeywordBoards(inbox_id, subject) # {}
    THEN {[kind |-> "board", board |-> b] : b \in KeywordBoards(inbox_id, subject)}
    ELSE {[kind |-> "none", board |-> 0]}

Err == 0

\* the uuids of a sequence of tickets rows
TicketUuids(tk) == {tk[k].uuid : k \in 1..Len(tk)}

\* a loop that ends by returning a candidate it found taken
AttemptsExhausted_ReusesLast == {[uuid |-> c, attempts |-> 0] : c \in UUIDs}

\* after the loop: raise RuntimeError
AttemptsExhausted == {[uuid |-> Err, attempts |-> 0]}

\* the for loop of generate_unique_ticket_uuid with `left` iterations to go:
\* every (result, iterations used) some run can end with. A candidate found in
\* tickets or in external_tickets costs one iteration; Err is the RuntimeError
\* after the last one
RECURSIVE uuid_attempts(_, _, _)
uuid_attempts(tk_uuids, ext, left) ==
    IF left = 0
    THEN AttemptsExhausted
    ELSE LET free == {c \in UUIDs : c \notin tk_uuids /\ c \notin ext}
             again == {[r EXCEPT !.attempts = @ + 1] :
                          r \in uuid_attempts(tk_uuids, ext, left - 1)}
         IN {[uuid |-> c, attempts |-> 1] : c \in free}
            \cup (IF free # UUIDs THEN again ELSE {})

\* the allocation loop checking the tickets table only
generate_unique_ticket_uuid_TicketsOnly(tk, ext) ==
    {r.uuid : r \in uuid_attempts(TicketUuids(tk), {}, max_attempts)}

\* generate_unique_ticket_uuid: every value some run of the loop can return;
\* Err is the RuntimeError raised once all max_attempts candidates collided
generate_unique_ticket_uuid(tk, ext) ==
    {r.uuid : r \in uuid_attempts(TicketUuids(tk), ext, max_attempts)}

\* rows carry, next to their columns, the message they were made for
\* (origin: inbox and sequence number on the server; 0, 0 outside the poller)
NewStandbyItem(manager_id, sender, subject, body, failure_reason, at, origin) ==
    [manager_id |-> manager_id, email_subject |-> Take(subject, TITLE_MAX),
     email_body |-> body, sender_email |-> sender, failure_reason |-> failure_reason, retry_count |-> 0,
     created_at |-> at, origin |-> origin]

\* a ticket that takes subject and body as they are
NewTicket_Untruncated(uuid, board_id, sender, subject, body, at, origin) ==
    [uuid |-> uuid, board_id |-> board_id, title |-> subject,
     description |-> body, creator_email |-> sender, source |-> "email", state |-> "new",
     created_at |-> at, origin |-> origin]

\* _create_ticket: title and description are cut to their column sizes
NewTicket(uuid, board_id, sender, subject, body, at, origin) ==
    [uuid |-> uuid, board_id |-> board_id, title |-> Take(subject, TITLE_MAX),
     description |-> Take(body, DESCRIPTION_MAX), creator_email |-> sender, source |-> "email", state |-> "new",
     created_at |-> at, origin |-> origin]

\* what _create_ticket hands to send_ticket_confirmation_email
Confirmation(ticket) ==
    [to_email |-> ticket.creator_email, ticket_uuid |-> ticket.uuid,
     ticket_title |-> ticket.title, origin |-> ticket.origin]

\* the except branch of _route_email: one more standby item, unless its commit fails too
Fallback(inbox_id, parsed, faults, at, origin) ==
    IF "fallback_commit" \in faults
    THEN [sb |-> <<>>, raised |-> TRUE]
    ELSE [sb |-> <<NewStandbyItem(inboxes[inbox_id].manager_id, parsed.sender,
                                  parsed.subject, parsed.body, "no_board_match", at,
                                  origin)>>,
          raised |-> FALSE]

\* the except branch behind a query of the try block that raised: nothing rolls
\* the session back between the failed query and the handler's commit, so what
\* failed the query can fail that commit as well, which then raises out of
\* _route_email
AfterQueryError(fb) == {fb, [sb |-> <<>>, raised |-> TRUE]}

\* rows of uq_inbox_message that the new processed_emails row would collide with
MessageIdTaken(proc, inbox_id, message_id) ==
    \E k \in 1..Len(proc) : proc[k].inbox_id = inbox_id /\ proc[k].message_id = message_id

Remove(s, k) == SubSeq(s, 1, k - 1) \o SubSeq(s, k + 1, Len(s))

Unseen(box) == {k \in 1..Len(box) : ~box[k].seen}

\* the elements of a set of numbers, ascending
RECURSIVE Ascending(_)
Ascending(S) ==
    IF S = {} THEN <<>>
    ELSE LET m == CHOOSE x \in S : \A y \in S : x <= y
         IN <<m>> \o Ascending(S \ {m})

\* ------------------------------------------------------------------- Init
NoPending == [uuid |-> 0, board_id |-> 0]
ApiIdle == [pc |-> "idle", uuid |-> 0, board_id |-> 0, item |-> 0]

\* an exclusive inbox is validated to belong to the board's manager
\* (BoardService.create_board / update_board); nothing else is validated
BoardRows(inb) ==
    {r \in [manager_id : Managers, exclusive_inbox_id : {NULL} \cup DOMAIN inb,
            is_archived : BOOLEAN] :
        r.exclusive_inbox_id # NULL => r.manager_id = inb[r.exclusive_inbox_id].manager_id}

InboxRow(active) == [manager_id |-> 1, is_active |-> active, last_polled_at |-> NULL,
                     polling_interval |-> polling_interval]

\* inbox 1 is active; inbox 2 is active, inactive or has no row
InboxTables ==
    {[i \in {1} |-> InboxRow(TRUE)]}
    \cup {[i \in {1, 2} |-> InboxRow(i = 1 \/ a)] : a \in BOOLEAN}

\* no exclusive inbox anywhere; board 2 may be archived
PlainBoards ==
    {[b \in Boards |-> [manager_id |-> 1, exclusive_inbox_id |-> NULL,
                        is_archived |-> (b = 2 /\ a)]] : a \in BOOLEAN}

\* every binding of the two boards the configuration layer accepts
AllBoards(inb) ==
    {f \in [Boards -> BoardRows(inb)] : f[1].manager_id = 1 /\ ~f[1].is_archived}

InitStore ==
    /\ now = 0
    /\ keywords = {[board_id |-> 1, keyword |-> <<"b", "u", "g">>],
                   [board_id |-> 2, keyword |-> <<"O", "K">>]}
    /\ external = {1}
    /\ tickets = <<>>
    /\ standby = <<>>
    /\ processed = <<>>
    /\ mailbox = [i \in InboxIds |-> <<>>]
    /\ pc = [i \in InboxIds |-> "idle"]
    /\ session = [i \in InboxIds |-> FALSE]
    /\ emails = [i \in InboxIds |-> <<>>]
    /\ idx = [i \in InboxIds |-> 0]
    /\ pending = [i \in InboxIds |-> NoPending]
    /\ fetch_ok = [i \in InboxIds |-> TRUE]
    /\ result = [i \in InboxIds |-> "none"]
    /\ api = ApiIdle
    /\ cycles = 0
    /\ delivered = 0
    /\ requests = 0
    /\ route_log = {}
    /\ sent = <<>>

\* the scheduler after startup: one job per active inbox, nothing running
InitJobs ==
    /\ jobs = {[id |-> i, minutes |-> inboxes[i].polling_interval] :
                  i \in {j \in DOMAIN inboxes : inboxes[j].is_active}}
    /\ running = <<>>
    /\ dropped = <<>>
    /\ fired = 0
    /\ sched_op = [op |-> "startup", id |-> 0, minutes |-> 0, before |-> {}]

NoChange == [pc |-> "idle", ticket_id |-> 0, new_state |-> "new", current_state |-> "new"]
NoRedeem == [pc |-> "idle", token_id |-> 0, new_password |-> 0]
Requests == {1, 2}                \* requests the thread pool serves at the same time

\* no ticket was ever moved, no manager ever asked for a token
InitOther ==
    /\ InitJobs
    /\ status_changes = <<>>
    /\ change = [r \in Requests |-> NoChange]
    /\ managers = [m \in Managers |-> [email_verified_at |-> NULL,
                                        password_hash |-> [bcrypt |-> 0]]]
    /\ tokens = <<>>
    /\ redeem = [r \in Requests |-> NoRedeem]

\* the polling engine; the environment may fail MaxFaults times
Init ==
    /\ inboxes \in InboxTables
    /\ boards \in PlainBoards
    /\ faults_seen = 0
    /\ InitStore
    /\ InitOther

\* two active inboxes under every board configuration; the environment does not fail
InitRoute ==
    /\ inboxes = [i \in {1, 2} |-> InboxRow(TRUE)]
    /\ boards \in AllBoards(inboxes)
    /\ faults_seen = MaxFaults
    /\ InitStore
    /\ InitOther

\* two active inboxes next to the requests that create tickets outside the poller
InitApi ==
    /\ inboxes = [i \in {1, 2} |-> InboxRow(TRUE)]
    /\ boards = [b \in Boards |-> [manager_id |-> 1, exclusive_inbox_id |-> NULL,
                                   is_archived |-> FALSE]]
    /\ faults_seen = 0
    /\ InitStore
    /\ InitOther

\* ------------------------------------------------------------ environment
\* time passes
Tick(d) ==
    /\ now + d <= MaxTime
    /\ now' = now + d
    /\ UNCHANGED <<inboxes, configVars, storeVars, mailbox, jobVars, api, histVars, sent,
                   otherVars>>

\* the mail server receives a message for inbox i
Deliver(i, raw) ==
    /\ delivered < MaxMail
    /\ delivered' = delivered + 1
    /\ mailbox' = [mailbox EXCEPT ![i] = Append(@, [raw |-> raw, seen |-> FALSE])]
    /\ UNCHANGED <<now, inboxes, configVars, storeVars, jobVars, api, cycles, faults_seen,
                   requests, route_log, sent, otherVars>>

\* ------------------------------------------------------------- poll_inbox
\* a finally block that leaves the mailbox session open
Logout_Skipped(i) == UNCHANGED session

\* `if imap_client: await imap_client.logout()`, whatever logout raises
Logout(i) == session' = [session EXCEPT ![i] = FALSE]

\* poll_inbox returns: the finally block logs out if a session exists and
\* closes the database session; the locals of the call are gone
EndCall(i, res) ==
    /\ pc' = [pc EXCEPT ![i] = "idle"]
    /\ result' = [result EXCEPT ![i] = res]
    /\ Logout(i)
    /\ emails' = [emails EXCEPT ![i] = <<>>]
    /\ idx' = [idx EXCEPT ![i] = 0]
    /\ pending' = [pending EXCEPT ![i] = NoPending]

\* an outer handler that logs and re-raises
OuterExcept_Reraises(i) ==
    /\ EndCall(i, "raised")
    /\ UNCHANGED inboxes

\* the outer `except Exception`: log, db.rollback(), then the finally block
OuterExcept(i) ==
    /\ EndCall(i, "error")
    /\ UNCHANGED inboxes

\* a connect failure that still stamps the inbox
ConnectFailed_Stamps(i) ==
    /\ EndCall(i, "aborted")
    /\ inboxes' = [inboxes EXCEPT ![i].last_polled_at = now]

\* _connect_imap raised: log and return
ConnectFailed(i) ==
    /\ EndCall(i, "aborted")
    /\ UNCHANGED inboxes

\* a skip that still stamps the inbox as polled
SkipInactive_Stamps(i) ==
    /\ EndCall(i, "inactive")
    /\ inboxes' = [inboxes EXCEPT ![i].last_polled_at = now]

\* the inbox is not active: log and return
SkipInactive(i) ==
    /\ EndCall(i, "inactive")
    /\ UNCHANGED inboxes

\* _fetch_unread_emails: select, search UNSEEN, fetch each; any exception yields []
_fetch_unread_emails(box, fault) ==
    IF fault THEN <<>> ELSE Ascending(Unseen(box))

StartFaults == {"inbox_query", "connect", "fetch"}

\* the sets of failure points that may still fail in one step
Failing(points) == {F \in SUBSET points : faults_seen + Cardinality(F) <= MaxFaults}

\* poll_inbox(i) up to its loop: load the row, check is_active, connect, list
\* the unseen messages
StartCycle(i) ==
    /\ pc[i] = "idle"
    /\ \E faults \in Failing(StartFaults) :
        /\ faults_seen' = faults_seen + Cardinality(faults)
        /\ IF "inbox_query" \in faults THEN OuterExcept(i)
           ELSE IF i \notin DOMAIN inboxes THEN EndCall(i, "notfound") /\ UNCHANGED inboxes
           ELSE IF ~inboxes[i].is_active THEN SkipInactive(i)
           ELSE IF "connect" \in faults THEN ConnectFailed(i)
           ELSE /\ pc' = [pc EXCEPT ![i] = "loop"]
                /\ session' = [session EXCEPT ![i] = TRUE]
                /\ emails' = [emails EXCEPT ![i] =
                                _fetch_unread_emails(mailbox[i], "fetch" \in faults)]
                /\ idx' = [idx EXCEPT ![i] = 1]
                /\ result' = [result EXCEPT ![i] = "running"]
                /\ UNCHANGED <<inboxes, pending>>
        /\ fetch_ok' = [fetch_ok EXCEPT ![i] =
                          ~(/\ "fetch" \in faults
                            /\ {"inbox_query", "connect"} \cap faults = {}
                            /\ i \in DOMAIN inboxes
                            /\ inboxes[i].is_active)]
    /\ UNCHANGED <<now, configVars, storeVars, mailbox, api, delivered, requests, route_log,
                   sent, otherVars>>

\* the scheduler fires the job of inbox id i
StartPoll(i) ==
    /\ cycles < MaxCycles
    /\ cycles' = cycles + 1
    /\ StartCycle(i)

\* ... and keeps firing it once the history counter has reached its bound
Retrigger(i) ==
    /\ cycles = MaxCycles
    /\ UNCHANGED cycles
    /\ StartCycle(i)

\* a loop without the per-message handler: the exception reaches the outer one
NextMessage_Aborts(i, raised) ==
    IF raised
    THEN OuterExcept(i)
    ELSE /\ idx' = [idx EXCEPT ![i] = @ + 1]
         /\ pc' = [pc EXCEPT ![i] = "loop"]
         /\ pending' = [pending EXCEPT ![i] = NoPending]
         /\ UNCHANGED <<session, emails, result, inboxes>>

\* the for loop moves on to the next message; raised: the per-message
\* `except Exception` caught something, logs and continues
NextMessage(i, raised) ==
    /\ idx' = [idx EXCEPT ![i] = @ + 1]
    /\ pc' = [pc EXCEPT ![i] = "loop"]
    /\ pending' = [pending EXCEPT ![i] = NoPending]
    /\ UNCHANGED <<session, emails, result, inboxes>>

\* _mark_processed: the row it adds; the commit fails on a store failure and on uq_inbox_message
_mark_processed(proc, inbox_id, message_id, sender, subject_hash, fault, at, origin) ==
    IF fault \/ MessageIdTaken(proc, inbox_id, Take(message_id, TITLE_MAX))
    THEN <<>>
    ELSE <<[inbox_id |-> inbox_id, message_id |-> Take(message_id, TITLE_MAX),
            sender_email |-> Take(sender, TITLE_MAX), subject_hash |-> subject_hash,
            processed_at |-> at, origin |-> origin]>>

\* a loop body that flags the message whether or not its record was committed
SeenAfter_Unrecorded(row, faults) == "imap_store" \notin faults

\* +FLAGS \Seen is reached, and succeeds, only behind the commit of _mark_processed
SeenAfter(row, faults) == row # <<>> /\ "imap_store" \notin faults

\* the rest of the loop body once _route_email is over: it persisted tkAdd and
\* sbAdd and either returned or raised; then _mark_processed, then +FLAGS \Seen
Complete(i, parsed, tkAdd, sbAdd, mailAdd, raised, faults, cause) ==
    LET num == emails[i][idx[i]]
        row == IF raised THEN <<>>
               ELSE _mark_processed(processed, i, parsed.message_id, parsed.sender,
                                    _hash_subject(parsed.subject), "mark_commit" \in faults,
                                    now, <<i, num>>)
        seenOk == SeenAfter(row, faults)
    IN /\ tickets' = tickets \o tkAdd
       /\ standby' = standby \o sbAdd
       /\ sent' = sent \o mailAdd
       /\ processed' = processed \o row
       /\ route_log' = IF cause = "none" THEN route_log
                       ELSE route_log \cup {[origin |-> <<i, num>>, cycle |-> cycles,
                                             cause |-> cause, raised |-> raised]}
       /\ mailbox' = IF seenOk THEN [mailbox EXCEPT ![i][num].seen = TRUE] ELSE mailbox
       /\ NextMessage(i, ~seenOk)

RouteFaults == {"dup_query", "route_query", "standby_commit", "fallback_commit",
                "mark_commit", "imap_store"}
CommitFaults == {"ticket_commit", "refresh", "fallback_commit", "mark_commit", "imap_store"}

\* one pass of the loop body up to the point where _create_ticket holds a fresh uuid
Route(i) ==
    /\ pc[i] = "loop"
    /\ idx[i] <= Len(emails[i])
    /\ \E faults \in Failing(RouteFaults) :
        LET num == emails[i][idx[i]]
            parsed == _parse_email(mailbox[i][num].raw)
            fb == Fallback(i, parsed, faults, now, <<i, num>>)
        IN /\ faults_seen' = faults_seen + Cardinality(faults)
           /\ IF parsed.sender = <<>> \/ parsed.subject = <<>>
              THEN NextMessage(i, FALSE) /\ UNCHANGED <<storeVars, mailbox, sent, route_log>>
              ELSE IF "dup_query" \in faults
              THEN NextMessage(i, TRUE) /\ UNCHANGED <<storeVars, mailbox, sent, route_log>>
              ELSE IF _is_duplicate(processed, i, parsed.sender, _hash_subject(parsed.subject), now)
              THEN /\ mailbox' = IF "imap_store" \in faults THEN mailbox
                                 ELSE [mailbox EXCEPT ![i][num].seen = TRUE]
                   /\ NextMessage(i, "imap_store" \in faults)
                   /\ UNCHANGED <<storeVars, sent, route_log>>
              ELSE \E tgt \in RouteTargets(i, parsed.subject, faults) :
                   CASE tgt.kind = "board" ->
                          \E u \in generate_unique_ticket_uuid(tickets, external) :
                              IF u = Err
                              THEN Complete(i, parsed, <<>>, fb.sb, <<>>, fb.raised, faults,
                                            "create_ticket")
                              ELSE /\ pending' = [pending EXCEPT ![i] =
                                                    [uuid |-> u, board_id |-> tgt.board]]
                                   /\ pc' = [pc EXCEPT ![i] = "commit"]
                                   /\ UNCHANGED <<storeVars, mailbox, session, emails,
                                                  idx, result, inboxes, sent, route_log>>
                     [] tgt.kind = "none" ->
                          IF "standby_commit" \in faults
                          THEN Complete(i, parsed, <<>>, fb.sb, <<>>, fb.raised, faults,
                                        "standby_commit")
                          ELSE Complete(i, parsed, <<>>,
                                        <<NewStandbyItem(inboxes[i].manager_id, parsed.sender,
                                                         parsed.subject, parsed.body,
                                                         "no_keyword_match",
                                                         now, <<i, num>>)>>,
                                        <<>>, FALSE, faults, "none")
                     [] tgt.kind = "error" ->
                          \E f \in AfterQueryError(fb) :
                              Complete(i, parsed, <<>>, f.sb, <<>>, f.raised, faults,
                                       "route_query")
    /\ UNCHANGED <<now, configVars, fetch_ok, api, cycles, delivered, requests, otherVars>>

\* the rest of _create_ticket (commit, refresh, confirmation mail) and of the loop body
Commit(i) ==
    /\ pc[i] = "commit"
    /\ \E faults \in Failing(CommitFaults) :
        LET num == emails[i][idx[i]]
            parsed == _parse_email(mailbox[i][num].raw)
            t == NewTicket(pending[i].uuid, pending[i].board_id, parsed.sender,
                           parsed.subject, parsed.body, now, <<i, num>>)
            clash == \E k \in 1..Len(tickets) : tickets[k].uuid = t.uuid
            fb == Fallback(i, parsed, faults, now, <<i, num>>)
        IN /\ faults_seen' = faults_seen + Cardinality(faults)
           /\ IF "ticket_commit" \in faults \/ clash
              THEN Complete(i, parsed, <<>>, fb.sb, <<>>, fb.raised, faults, "create_ticket")
              ELSE IF "refresh" \in faults
              THEN Complete(i, parsed, <<t>>, fb.sb, <<>>, fb.raised, faults, "create_ticket")
              ELSE Complete(i, parsed, <<t>>, <<>>, <<Confirmation(t)>>, FALSE, faults, "none")
    /\ UNCHANGED <<now, configVars, fetch_ok, api, cycles, delivered, requests, otherVars>>

\* a failure path that clears the timestamp
FinalizeFailed_Resets(i) ==
    /\ EndCall(i, "error")
    /\ inboxes' = [inboxes EXCEPT ![i].last_polled_at = NULL]

\* the final db.commit() raised: the outer handler rolls back
FinalizeFailed(i) == OuterExcept(i)

\* a cycle that ends without stamping the inbox
Finalized_NoStamp(i) ==
    /\ UNCHANGED inboxes
    /\ EndCall(i, "completed")

\* inbox.last_polled_at = now and db.commit() went through
Finalized(i) ==
    /\ inboxes' = [inboxes EXCEPT ![i].last_polled_at = now]
    /\ EndCall(i, "completed")

\* after the loop: last_polled_at = now, commit; then the finally block
Finalize(i) ==
    /\ pc[i] = "loop"
    /\ idx[i] > Len(emails[i])
    /\ \E faults \in Failing({"final_commit"}) :
        /\ faults_seen' = faults_seen + Cardinality(faults)
        /\ IF faults # {}
           THEN FinalizeFailed(i)
           ELSE Finalized(i)
    /\ UNCHANGED <<now, configVars, storeVars, mailbox, fetch_ok, api, cycles, delivered,
                   requests, route_log, sent, otherVars>>

\* ------------------------------------------- tickets created outside the poller
\* PublicService.create_ticket up to the uuid it obtained
WebGenerate(b) ==
    /\ api.pc = "idle"
    /\ requests < MaxApi
    /\ requests' = requests + 1
    /\ ~boards[b].is_archived
    /\ \E u \in generate_unique_ticket_uuid(tickets, external) \ {Err} :
        api' = [pc |-> "web", uuid |-> u, board_id |-> b, item |-> 0]
    /\ UNCHANGED <<now, inboxes, configVars, storeVars, mailbox, jobVars, cycles, delivered,
                   faults_seen, route_log, sent, otherVars>>

\* StandbyQueueService.assign_to_board up to the uuid it obtained
AssignGenerate(k, b) ==
    /\ api.pc = "idle"
    /\ requests < MaxApi
    /\ requests' = requests + 1
    /\ k \in 1..Len(standby)
    /\ boards[b].manager_id = standby[k].manager_id
    /\ \E u \in generate_unique_ticket_uuid(tickets, external) \ {Err} :
        api' = [pc |-> "assign", uuid |-> u, board_id |-> b, item |-> k]
    /\ UNCHANGED <<now, inboxes, configVars, storeVars, mailbox, jobVars, cycles, delivered,
                   faults_seen, route_log, sent, otherVars>>

\* db.add(ticket) and the commit of either request; tickets.uuid is UNIQUE
ApiCommit ==
    /\ api.pc \in {"web", "assign"}
    /\ LET clash == \E k \in 1..Len(tickets) : tickets[k].uuid = api.uuid
           t == IF api.pc = "web"
                THEN [uuid |-> api.uuid, board_id |-> api.board_id, title |-> SubjOk,
                      description |-> BodyHi, creator_email |-> <<"w@x">>, source |-> "web", state |-> "new",
                      created_at |-> now, origin |-> <<0, 0>>]
                ELSE [uuid |-> api.uuid, board_id |-> api.board_id,
                      title |-> standby[api.item].email_subject,
                      description |-> standby[api.item].email_body,
                      creator_email |-> standby[api.item].sender_email,
                      source |-> "email", state |-> "new",
                      created_at |-> now, origin |-> <<0, 0>>]
       IN IF clash
          THEN UNCHANGED <<tickets, standby, sent>>
          ELSE /\ tickets' = Append(tickets, t)
               /\ standby' = IF api.pc = "assign" THEN Remove(standby, api.item) ELSE standby
               /\ sent' = IF api.pc = "web" THEN Append(sent, Confirmation(t)) ELSE sent
    /\ api' = ApiIdle
    /\ UNCHANGED <<now, inboxes, configVars, processed, mailbox, jobVars, histVars, otherVars>>

\* one active inbox whose mail is longer than the columns; the environment does not fail
InitTrunc ==
    /\ inboxes = [i \in {1} |-> InboxRow(TRUE)]
    /\ boards \in PlainBoards
    /\ faults_seen = MaxFaults
    /\ InitStore
    /\ InitOther

NextTrunc ==
    \/ \E raw \in LongEmails : Deliver(1, raw)
    \/ \E i \in InboxIds : StartPoll(i)
    \/ \E i \in InboxIds : Route(i)
    \/ \E i \in InboxIds : Commit(i)
    \/ \E i \in InboxIds : Finalize(i)

\* mail of one sender: a message that routes to a board and a payload that
\* cannot be parsed (no sender)
LiveEmails == {raw \in RawEmails : raw.malformed \/ raw.subject = SubjBug}

\* a job that is triggered for ever; the connector and the store never fail
NextLive ==
    \/ \E i \in InboxIds, raw \in LiveEmails : Deliver(i, raw)
    \/ \E i \in InboxIds : StartPoll(i)
    \/ \E i \in InboxIds : Retrigger(i)
    \/ \E i \in InboxIds : Route(i)
    \/ \E i \in InboxIds : Commit(i)
    \/ \E i \in InboxIds : Finalize(i)

\* every trigger that is due fires and every call of poll_inbox runs on
Fairness ==
    \A i \in InboxIds :
        /\ WF_vars(StartPoll(i) \/ Retrigger(i))
        /\ WF_vars(Route(i))
        /\ WF_vars(Commit(i))
        /\ WF_vars(Finalize(i))

\* ---------------------------------------------------------- the scheduler
Intervals == {1, 5, 15}           \* polling intervals an inbox may have, minutes

\* scheduler.get_job(f"poll_inbox_{X}"), as the set of jobs stored under that id
JobsOf(X) == {j \in jobs : j.id = X}

\* the executor's count of runs in flight under one job id
Instances(id) == Cardinality({k \in 1..Len(running) : running[k].id = id})

\* a registration that leaves the previous job of the inbox in the store
add_polling_job_KeepsOld(X, I) ==
    /\ jobs' = jobs \cup {[id |-> X, minutes |-> I]}
    /\ sched_op' = [op |-> "add", id |-> X, minutes |-> I, before |-> JobsOf(X)]
    /\ UNCHANGED <<running, dropped, fired>>

\* add_polling_job: remove the job stored under the id, then add_job(replace_existing=True)
add_polling_job(X, I) ==
    /\ jobs' = (jobs \ JobsOf(X)) \cup {[id |-> X, minutes |-> I]}
    /\ sched_op' = [op |-> "add", id |-> X, minutes |-> I, before |-> JobsOf(X)]
    /\ UNCHANGED <<running, dropped, fired>>

\* remove_polling_job: remove the job stored under the id if there is one
remove_polling_job(X) ==
    /\ jobs' = IF JobsOf(X) # {} THEN jobs \ JobsOf(X) ELSE jobs
    /\ sched_op' = [op |-> "remove", id |-> X, minutes |-> 0, before |-> JobsOf(X)]
    /\ UNCHANGED <<running, dropped, fired>>

\* a job registered without a limit on its concurrent runs
Fire_Unlimited(j) ==
    /\ running' = Append(running, j)
    /\ UNCHANGED dropped

\* the trigger of job j fires: the executor starts poll_inbox(j.id) unless
\* max_instances runs of that job id are in flight, in which case the run is skipped
Fire(j) ==
    IF Instances(j.id) >= max_instances
    THEN /\ dropped' = Append(dropped, j)
         /\ UNCHANGED running
    ELSE /\ running' = Append(running, j)
         /\ UNCHANGED dropped

\* the interval of a registered job elapses
Trigger(j) ==
    /\ j \in jobs
    /\ fired < MaxFire
    /\ fired' = fired + 1
    /\ Fire(j)
    /\ UNCHANGED <<jobs, sched_op>>

\* poll_inbox of run k returned: the executor releases the instance
Finish(k) ==
    /\ k \in 1..Len(running)
    /\ running' = Remove(running, k)
    /\ UNCHANGED <<jobs, dropped, fired, sched_op>>

pollVars == <<now, inboxes, configVars, storeVars, mailbox, jobVars, api, histVars, sent>>

Scheduler ==
    \/ \E X \in InboxIds, I \in Intervals : add_polling_job(X, I)
    \/ \E X \in InboxIds : remove_polling_job(X)
    \/ \E j \in jobs : Trigger(j)
    \/ \E k \in 1..MaxFire : Finish(k)

pollAndSched == <<pollVars, schedVars>>

\* ------------------------------------------------------- inbox configuration
\* what the inbox endpoints leave alone
inboxFrame == <<now, keywords, external, storeVars, mailbox, jobVars, api, histVars, sent,
                ticketVars, authVars>>

Unset == {}                       \* a field the request body does not carry
Given(v) == {v}

\* EmailInboxService.get_inbox: the HTTP status it answers with
get_inbox(m, X) ==
    IF X \notin DOMAIN inboxes THEN 404
    ELSE IF inboxes[X].manager_id # m THEN 403
    ELSE 200

\* POST /inboxes: the row is stored (is_active defaults to true), then the job
\* of the new, active inbox is registered
create_inbox(m, X, I) ==
    /\ X \notin DOMAIN inboxes
    /\ inboxes' = [i \in DOMAIN inboxes \cup {X} |->
                      IF i = X
                      THEN [manager_id |-> m, is_active |-> TRUE, last_polled_at |-> NULL,
                            polling_interval |-> I]
                      ELSE inboxes[i]]
    /\ add_polling_job(X, I)
    /\ UNCHANGED <<boards, inboxFrame>>

\* PUT /inboxes/{X}: get_inbox (404, 403), the given fields are stored, and when
\* is_active or polling_interval was given the job is registered anew for an
\* active inbox and removed for one that was just deactivated
update_inbox(m, X, is_active, interval) ==
    IF get_inbox(m, X) # 200
    THEN UNCHANGED vars
    ELSE LET row == [inboxes[X] EXCEPT
                        !.is_active = IF is_active = Unset THEN @
                                      ELSE CHOOSE v \in is_active : TRUE,
                        !.polling_interval = IF interval = Unset THEN @
                                             ELSE CHOOSE v \in interval : TRUE]
         IN /\ inboxes' = [inboxes EXCEPT ![X] = row]
            /\ IF is_active = Unset /\ interval = Unset THEN UNCHANGED schedVars
               ELSE IF row.is_active THEN add_polling_job(X, row.polling_interval)
               ELSE IF inboxes[X].is_active THEN remove_polling_job(X)
               ELSE UNCHANGED schedVars
            /\ UNCHANGED <<boards, inboxFrame>>

\* DELETE /inboxes/{X}: remove_polling_job, then EmailInboxService.delete_inbox
\* (get_inbox: 404, 403; the row goes, boards bound to it are set to NULL)
delete_inbox(m, X) ==
    /\ remove_polling_job(X)
    /\ IF get_inbox(m, X) # 200
       THEN UNCHANGED <<inboxes, boards>>
       ELSE /\ inboxes' = [i \in DOMAIN inboxes \ {X} |-> inboxes[i]]
            /\ boards' = [b \in Boards |->
                            IF boards[b].exclusive_inbox_id = X
                            THEN [boards[b] EXCEPT !.exclusive_inbox_id = NULL]
                            ELSE boards[b]]
    /\ UNCHANGED inboxFrame

NextInbox ==
    \/ \E m \in Managers, X \in InboxIds, I \in Intervals : create_inbox(m, X, I)
    \/ \E m \in Managers, X \in InboxIds :
          \E a \in {Unset, Given(TRUE), Given(FALSE)} :
          \E I \in {Unset} \cup {Given(v) : v \in Intervals} : update_inbox(m, X, a, I)
    \/ \E m \in Managers, X \in InboxIds : delete_inbox(m, X)

\* ------------------------------------------------------ ticket state changes
States == {"new", "in_progress", "closed", "rejected"}

\* TicketService.STATE_TRANSITIONS
STATE_TRANSITIONS ==
    [st \in States |->
        CASE st = "new" -> {"in_progress", "rejected"}
          [] st = "in_progress" -> {"closed", "rejected"}
          [] st = "closed" -> {}
          [] st = "rejected" -> {}]

\* PATCH /tickets/{id}/state up to the validation: get_ticket loads the row of
\* manager m into the request's session, change_ticket_state validates new_state
\* against the state that was loaded
ChangeRead(r, m, k, new_state) ==
    /\ change[r].pc = "idle"
    /\ k \in 1..Len(tickets)
    /\ IF boards[tickets[k].board_id].manager_id # m
       THEN change' = [change EXCEPT ![r] = [NoChange EXCEPT !.pc = "not_found"]]
       ELSE IF new_state \notin STATE_TRANSITIONS[tickets[k].state]
       THEN change' = [change EXCEPT ![r] = [NoChange EXCEPT !.pc = "unprocessable"]]
       ELSE change' = [change EXCEPT ![r] =
                         [pc |-> "validated", ticket_id |-> k, new_state |-> new_state,
                          current_state |-> tickets[k].state]]
    /\ UNCHANGED <<pollAndSched, authVars, status_changes>>

\* ... and the rest: add the status change row, set ticket.state, commit
ChangeCommit(r) ==
    /\ change[r].pc = "validated"
    /\ status_changes' = Append(status_changes,
                                [ticket_id |-> change[r].ticket_id,
                                 previous_state |-> change[r].current_state,
                                 new_state |-> change[r].new_state])
    /\ tickets' = [tickets EXCEPT ![change[r].ticket_id].state = change[r].new_state]
    /\ change' = [change EXCEPT ![r] = NoChange]
    /\ UNCHANGED <<now, inboxes, configVars, standby, processed, mailbox, jobVars, api,
                   histVars, sent, schedVars, authVars>>

\* the HTTPException (404 or 422) went out as the response
ChangeRefused(r) ==
    /\ change[r].pc \in {"not_found", "unprocessable"}
    /\ change' = [change EXCEPT ![r] = NoChange]
    /\ UNCHANGED <<pollAndSched, authVars, status_changes>>

\* ------------------------------------------------------------ manager tokens
Passwords == {1, 2}
hash_password(p) == [bcrypt |-> p]

\* the unused rows of one type, as the redemption queries filter them
Redeemable(token_type) ==
    {k \in 1..Len(tokens) : tokens[k].token_type = token_type /\ tokens[k].used_at = NULL}

NewToken(m, token_type, minutes) ==
    [manager_id |-> m, token_type |-> token_type, expires_at |-> now + minutes,
     used_at |-> NULL, redemptions |-> 0]

\* AuthService.create_verification_token
create_verification_token(m) ==
    /\ Len(tokens) < MaxTokens
    /\ tokens' = Append(tokens, NewToken(m, "email_verification", VERIFICATION_TOKEN_MINUTES))
    /\ UNCHANGED <<pollAndSched, ticketVars, managers, redeem>>

\* AuthService.create_password_reset_token: the manager's unused reset tokens
\* are marked used, then the new one is stored
create_password_reset_token(m) ==
    /\ Len(tokens) < MaxTokens
    /\ tokens' = Append([k \in 1..Len(tokens) |->
                            IF /\ tokens[k].manager_id = m
                               /\ tokens[k].token_type = "password_reset"
                               /\ tokens[k].used_at = NULL
                            THEN [tokens[k] EXCEPT !.used_at = now]
                            ELSE tokens[k]],
                        NewToken(m, "password_reset", RESET_TOKEN_MINUTES))
    /\ UNCHANGED <<pollAndSched, ticketVars, managers, redeem>>

\* verify_email_token / reset_password up to the expiry check: k is the row the
\* submitted token hashes to, 0 when there is none
RedeemRead(r, token_type, k, password) ==
    /\ redeem[r].pc = "idle"
    /\ k \in 0..Len(tokens)
    /\ IF k \notin Redeemable(token_type)
       THEN redeem' = [redeem EXCEPT ![r] = [NoRedeem EXCEPT !.pc = "invalid"]]
       ELSE IF tokens[k].expires_at < now
       THEN redeem' = [redeem EXCEPT ![r] = [NoRedeem EXCEPT !.pc = "expired"]]
       ELSE redeem' = [redeem EXCEPT ![r] =
                         [pc |-> token_type, token_id |-> k, new_password |-> password]]
    /\ UNCHANGED <<pollAndSched, ticketVars, managers, tokens>>

\* ... and the rest: used_at = now, the manager is verified or gets the new
\* password hash, commit
RedeemCommit(r) ==
    /\ redeem[r].pc \in {"email_verification", "password_reset"}
    /\ LET k == redeem[r].token_id
           m == tokens[k].manager_id
       IN /\ tokens' = [tokens EXCEPT ![k].used_at = now, ![k].redemptions = @ + 1]
          /\ managers' = IF redeem[r].pc = "email_verification"
                         THEN [managers EXCEPT ![m].email_verified_at = now]
                         ELSE [managers EXCEPT ![m].password_hash =
                                                    hash_password(redeem[r].new_password)]
    /\ redeem' = [redeem EXCEPT ![r] = NoRedeem]
    /\ UNCHANGED <<pollAndSched, ticketVars>>

\* the HTTPException (400) went out as the response
RedeemRefused(r) ==
    /\ redeem[r].pc \in {"invalid", "expired"}
    /\ redeem' = [redeem EXCEPT ![r] = NoRedeem]
    /\ UNCHANGED <<pollAndSched, ticketVars, managers, tokens>>

\* managers registered a while ago: manager 1 still holds the verification
\* token of the registration, which expires at minute 60
InitAuth ==
    /\ inboxes = [i \in {1, 2} |-> InboxRow(TRUE)]
    /\ boards \in PlainBoards
    /\ faults_seen = 0
    /\ InitStore
    /\ InitJobs
    /\ status_changes = <<>>
    /\ change = [r \in Requests |-> NoChange]
    /\ managers = [m \in Managers |-> [email_verified_at |-> NULL,
                                        password_hash |-> hash_password(0)]]
    /\ tokens = <<[manager_id |-> 1, token_type |-> "email_verification",
                   expires_at |-> RESET_TOKEN_MINUTES, used_at |-> NULL, redemptions |-> 0]>>
    /\ redeem = [r \in Requests |-> NoRedeem]

\* ------------------------------------------------------------------- Next
Poll ==
    \/ \E i \in InboxIds, raw \in RawEmails : Deliver(i, raw)
    \/ \E i \in InboxIds : StartPoll(i)
    \/ \E i \in InboxIds : Route(i)
    \/ \E i \in InboxIds : Commit(i)
    \/ \E i \in InboxIds : Finalize(i)

Next ==
    \/ \E d \in TickSteps : Tick(d)
    \/ Poll

NextRoute == Poll

NextApi ==
    \/ Poll
    \/ \E b \in Boards : WebGenerate(b)
    \/ \E k \in 1..MaxMail, b \in Boards : AssignGenerate(k, b)
    \/ ApiCommit

NextTicket ==
    \/ \E b \in Boards : WebGenerate(b)
    \/ ApiCommit
    \/ \E r \in Requests, m \in Managers, k \in 1..MaxApi, st \in States : ChangeRead(r, m, k, st)
    \/ \E r \in Requests : ChangeCommit(r)
    \/ \E r \in Requests : ChangeRefused(r)

TokenTypes == {"email_verification", "password_reset"}

NextAuth ==
    \/ \E d \in TickSteps : Tick(d)
    \/ \E m \in Managers : create_verification_token(m)
    \/ \E m \in Managers : create_password_reset_token(m)
    \/ \E r \in Requests, ty \in TokenTypes, k \in 0..MaxTokens, p \in Passwords :
          RedeemRead(r, ty, k, p)
    \/ \E r \in Requests : RedeemCommit(r)
    \/ \E r \in Requests : RedeemRefused(r)

NextSched == Scheduler /\ UNCHANGED <<pollVars, ticketVars, authVars>>

Spec == Init /\ [][Next]_vars
SpecTrunc == InitTrunc /\ [][NextTrunc]_vars
SpecTicket == InitApi /\ [][NextTicket]_vars
SpecAuth == InitAuth /\ [][NextAuth]_vars
SpecSched == InitApi /\ [][NextSched]_vars
SpecInbox == Init /\ [][NextInbox]_vars
SpecLive == InitRoute /\ [][NextLive]_vars /\ Fairness
SpecRoute == InitRoute /\ [][NextRoute]_vars
SpecApi == InitApi /\ [][NextApi]_vars

TypeOK ==
    /\ now \in 0..MaxTime
    /\ cycles \in 0..MaxCycles
    /\ \A i \in InboxIds : pc[i] \in {"idle", "loop", "commit"}

\* ------------------------------------------------------------- properties
\* the message a row was made for, as the poller parsed it
MessageOf(origin) == _parse_email(mailbox[origin[1]][origin[2]].raw)

\* tickets and standby items the poller created, with the time of creation
Materialized ==
    {[kind |-> "ticket", row |-> k, origin |-> tickets[k].origin, at |-> tickets[k].created_at]
        : k \in {j \in 1..Len(tickets) : tickets[j].origin[1] # 0}}
    \cup
    {[kind |-> "standby", row |-> k, origin |-> standby[k].origin, at |-> standby[k].created_at]
        : k \in 1..Len(standby)}

SameFingerprint(x, y) ==
    /\ x.origin[1] = y.origin[1]
    /\ MessageOf(x.origin).sender = MessageOf(y.origin).sender
    /\ MessageOf(x.origin).subject = MessageOf(y.origin).subject

\* job i stands between two messages or outside a cycle
BetweenMessages(i) == pc[i] \in {"idle", "loop"}

\* C1: messages with the same (inbox, sender, subject) listed within the
\* duplicate-detection window yield at most one ticket or standby item in total.
C1_AtMostOneMaterialization ==
    \A x, y \in Materialized :
        (/\ x # y
         /\ SameFingerprint(x, y)
         /\ x.at - y.at <= DUPLICATE_EMAIL_THRESHOLD_MINUTES
         /\ y.at - x.at <= DUPLICATE_EMAIL_THRESHOLD_MINUTES) => FALSE

PollTickets == {k \in 1..Len(tickets) : tickets[k].origin[1] # 0}

\* C2 (as claimed): whenever a non-archived board B has inbox I bound as its
\* exclusive inbox, every ticket made from a message of I is on B.
C2_ExclusivePreempts ==
    \A k \in PollTickets : \A b \in ExclusiveBoards(tickets[k].origin[1]) :
        tickets[k].board_id = b

\* C2 (amended): when inbox I is bound as exclusive inbox by some non-archived
\* board, every ticket made from a message of I is on such a board (on B when B
\* is the only one), never on a board that merely has a matching keyword.
C2_ExclusiveBindingPreempts ==
    \A k \in PollTickets :
        ExclusiveBoards(tickets[k].origin[1]) # {}
            => tickets[k].board_id \in ExclusiveBoards(tickets[k].origin[1])

\* a keyword row of another board that would have matched the message of ticket k
RivalKeyword(k) ==
    \E kw \in keywords :
        /\ kw.board_id # tickets[k].board_id
        /\ boards[kw.board_id].manager_id = inboxes[tickets[k].origin[1]].manager_id
        /\ boards[kw.board_id].exclusive_inbox_id = NULL
        /\ ~boards[kw.board_id].is_archived
        /\ Contains(Lower(kw.keyword), Lower(MessageOf(tickets[k].origin).subject))

C2_Witness ==
    \E k \in PollTickets :
        /\ ExclusiveBoards(tickets[k].origin[1]) = {tickets[k].board_id}
        /\ RivalKeyword(k)

\* C3: a board with an exclusive-inbox binding never receives a ticket made
\* from a message of another inbox.
C3_NoKeywordRouteToBoundBoard ==
    \A k \in PollTickets :
        boards[tickets[k].board_id].exclusive_inbox_id \in {NULL, tickets[k].origin[1]}

\* a message of inbox I was routed although a keyword of a board bound to
\* another inbox occurs in its subject
C3_Witness ==
    \E x \in Materialized : \E kw \in keywords :
        /\ boards[kw.board_id].exclusive_inbox_id \notin {NULL, x.origin[1]}
        /\ ~boards[kw.board_id].is_archived
        /\ boards[kw.board_id].manager_id = inboxes[x.origin[1]].manager_id
        /\ Contains(Lower(kw.keyword), Lower(MessageOf(x.origin).subject))

\* C4: all persisted ticket identifiers are pairwise distinct and none equals
\* the identifier of an external-ticket reference.
C4_IdentifiersDistinct ==
    /\ \A j, k \in 1..Len(tickets) : j # k => tickets[j].uuid # tickets[k].uuid
    /\ \A k \in 1..Len(tickets) : tickets[k].uuid \notin external

\* a request outside the poller still holds a candidate identifier that a
\* ticket the poller committed in the meantime has taken
C4_Witness ==
    /\ Len(tickets) >= 1
    /\ api.pc # "idle"
    /\ \E k \in 1..Len(tickets) : tickets[k].uuid = api.uuid /\ tickets[k].origin[1] # 0
    /\ external # {}

\* C5: a cycle whose connect fails returns without touching the store, the
\* mailbox or last_polled_at.
C5_ConnectFailureAborts ==
    [][\A i \in InboxIds :
          (pc[i] = "idle" /\ result'[i] = "aborted" /\ cycles' # cycles)
              => /\ UNCHANGED <<tickets, standby, processed, mailbox, inboxes>>
                 /\ pc'[i] = "idle"
                 /\ ~session'[i]]_vars

C5_Witness ==
    \E i \in InboxIds :
        /\ pc[i] = "idle"
        /\ result[i] = "aborted"
        /\ Unseen(mailbox[i]) # {}

\* C6: between messages and after a cycle, a ticket or standby item made for a
\* message exists if and only if the processed-email record of that message exists.
C6_CommitTogether ==
    \A i \in InboxIds : BetweenMessages(i) =>
        \A num \in 1..Len(mailbox[i]) :
            (\E x \in Materialized : x.origin = <<i, num>>)
                <=> (\E k \in 1..Len(processed) : processed[k].origin = <<i, num>>)

\* C7: a cycle whose listing failed ends aborted (and so leaves last_polled_at alone).
C7_ListingFailureAborts ==
    \A i \in InboxIds : (pc[i] = "idle" /\ ~fetch_ok[i]) => result[i] = "aborted"

\* C8: last_polled_at never decreases, and changes only when a cycle that
\* connected completes.
C8_LastPolledAdvances ==
    [][\A i \in DOMAIN inboxes :
          /\ inboxes'[i].last_polled_at >= inboxes[i].last_polled_at
          /\ inboxes'[i].last_polled_at # inboxes[i].last_polled_at
                => /\ pc[i] = "loop"
                   /\ session[i]
                   /\ idx[i] > Len(emails[i])
                   /\ result'[i] = "completed"]_vars

\* a second cycle of an inbox completed later than the first
C8_Witness ==
    \E i \in DOMAIN inboxes :
        /\ inboxes[i].last_polled_at > 0
        /\ cycles >= 2
        /\ result[i] = "completed"

C10_NeverRaises ==
    \A i \in InboxIds :
        /\ result[i] # "raised"
        /\ pc[i] = "idle" => result[i] \in {"none", "notfound", "inactive", "aborted",
                                            "completed", "error"}

\* calls ended in the outer handler, on a missing row and on an inactive inbox
C10_Witness ==
    /\ \E i \in InboxIds : pc[i] = "idle" /\ result[i] = "error"
    /\ \E i \in InboxIds : pc[i] = "idle" /\ result[i] \in {"notfound", "inactive"}

\* C11: at most one run of an inbox's poll cycle is in flight; a trigger that
\* fires while a run of that inbox is in flight is dropped, neither run nor
\* queued, also when the job was registered anew in the meantime.
C11_OneCycleInFlight ==
    [][/\ \A i \in InboxIds : Instances(i)' <= 1
       /\ fired' # fired
            => \/ running' = running /\ Len(dropped') = Len(dropped) + 1
               \/ /\ Len(running') = Len(running) + 1
                  /\ Instances(running'[Len(running')].id) = 0
       /\ Len(running') > Len(running) => (fired' = fired + 1 /\ dropped' = dropped)]_vars

\* both inboxes have a run in flight, and a trigger of an inbox was dropped
\* although its job is not the job that started the run in flight
C11_Witness ==
    /\ \A i \in InboxIds : Instances(i) = 1
    /\ \E k \in 1..Len(dropped), r \in 1..Len(running) :
          /\ dropped[k].id = running[r].id
          /\ dropped[k].minutes # running[r].minutes
          /\ dropped[k] \in jobs

\* C12: after add_polling_job(X, I) exactly one job is registered for X and it
\* has interval I; after remove_polling_job(X) none is; the jobs of the other
\* inboxes are those they were.
C12_JobRegistry ==
    [][/\ sched_op'.op = "add"
            => {j \in jobs' : j.id = sched_op'.id}
                   = {[id |-> sched_op'.id, minutes |-> sched_op'.minutes]}
       /\ sched_op'.op = "remove" => {j \in jobs' : j.id = sched_op'.id} = {}
       /\ \A X \in InboxIds : JobsOf(X)' # JobsOf(X) => sched_op'.id = X]_vars

\* a job of another interval was replaced while the other inbox keeps its job
C12_Witness ==
    /\ sched_op.op = "add"
    /\ sched_op.before # {}
    /\ sched_op.before # JobsOf(sched_op.id)
    /\ \E X \in InboxIds : X # sched_op.id /\ JobsOf(X) # {}

\* C13: identifier allocation uses at most max_attempts candidates; what it
\* returns is in neither the tickets nor the external tickets; it raises, and
\* returns nothing, exactly when every candidate it drew collided.
C13_AllocationBounded ==
    /\ Err \notin UUIDs
    /\ \A r \in uuid_attempts(TicketUuids(tickets), external, max_attempts) :
        /\ r.attempts \in 1..max_attempts
        /\ r.uuid # Err => (r.uuid \in UUIDs /\ r.uuid \notin TicketUuids(tickets)
                                              /\ r.uuid \notin external)
        /\ r.uuid = Err => r.attempts = max_attempts
    /\ UUIDs \subseteq (TicketUuids(tickets) \cup external)
            => generate_unique_ticket_uuid(tickets, external) = {Err}
    /\ (TicketUuids(tickets) \cup external) # {}
            => Err \in generate_unique_ticket_uuid(tickets, external)

\* every identifier is taken, by tickets and by the external reference
C13_Witness ==
    /\ UUIDs \subseteq (TicketUuids(tickets) \cup external)
    /\ TicketUuids(tickets) # {}
    /\ external \ TicketUuids(tickets) # {}

\* rows made for one message
StandbyFor(o) == {k \in 1..Len(standby) : standby[k].origin = o}
TicketsFor(o) == {k \in 1..Len(tickets) : tickets[k].origin = o}
ProcessedFor(o) == {k \in 1..Len(processed) : processed[k].origin = o}
SentFor(o) == {k \in 1..Len(sent) : sent[k].origin = o}

\* the message matches no exclusive-inbox board and no keyword
Unmatched(o) ==
    RouteTargets(o[1], MessageOf(o).subject, {}) = {[kind |-> "none", board |-> 0]}

\* C14: a message that matched no exclusive-inbox board and no keyword has
\* exactly one standby item, tagged no_keyword_match, of the inbox's account,
\* with retry counter 0 and the subject cut to 255 characters; it has no ticket
\* and no confirmation, and it is recorded as processed.
C14_FallbackRouting ==
    \A i \in InboxIds : BetweenMessages(i) =>
        \A num \in 1..Len(mailbox[i]) :
            LET o == <<i, num>>
            IN (Unmatched(o) /\ StandbyFor(o) # {})
                => /\ Cardinality(StandbyFor(o)) = 1
                   /\ \A k \in StandbyFor(o) :
                        /\ standby[k].failure_reason = "no_keyword_match"
                        /\ standby[k].manager_id = inboxes[i].manager_id
                        /\ standby[k].retry_count = 0
                        /\ standby[k].email_subject = Take(MessageOf(o).subject, TITLE_MAX)
                   /\ TicketsFor(o) = {}
                   /\ SentFor(o) = {}
                   /\ ProcessedFor(o) # {}

\* s[:n], element by element
IsPrefixOfLength(t, s, n) ==
    /\ Len(t) = Min(Len(s), n)
    /\ \A k \in 1..Len(t) : t[k] = s[k]

\* C15: a ticket the poller made has source email, state new, the sender as
\* creator, a board the route resolves to, the first 255 characters of the
\* subject as title and the first 6000 of the body as description; a subject
\* of 300 characters gives a title of exactly 255.
C15_TicketFields ==
    \A k \in PollTickets :
        LET m == MessageOf(tickets[k].origin)
        IN /\ tickets[k].source = "email"
           /\ tickets[k].state = "new"
           /\ tickets[k].creator_email = m.sender
           /\ [kind |-> "board", board |-> tickets[k].board_id]
                 \in RouteTargets(tickets[k].origin[1], m.subject, {})
           /\ IsPrefixOfLength(tickets[k].title, m.subject, 255)
           /\ IsPrefixOfLength(tickets[k].description, m.body, 6000)
           /\ Len(m.subject) = 300 => Len(tickets[k].title) = 255

\* a ticket made from the message with the 300-character subject and the
\* 6001-character body
C15_Witness ==
    \E k \in PollTickets :
        /\ Len(MessageOf(tickets[k].origin).subject) = 300
        /\ Len(MessageOf(tickets[k].origin).body) = 6001
        /\ Len(tickets[k].description) = 6000

\* C16: polling an inbox that is not active opens no session, creates no
\* ticket, standby item or processed-email record, leaves the mailbox and
\* last_polled_at alone and returns normally.
C16_InactiveIsNoOp ==
    [][\A i \in DOMAIN inboxes :
          /\ (pc[i] = "idle" /\ cycles' # cycles /\ result'[i] = "inactive")
                => /\ UNCHANGED <<tickets, standby, processed, sent, mailbox, inboxes>>
                   /\ pc'[i] = "idle"
                   /\ ~session'[i]
          /\ ~inboxes[i].is_active
                => /\ ~session'[i]
                   /\ pc'[i] = "idle"
                   /\ result'[i] \in {"none", "inactive", "error"}
                   /\ inboxes'[i] = inboxes[i]]_vars

\* the call on an inactive inbox returned while unseen mail waits in its mailbox
C16_Witness ==
    \E i \in DOMAIN inboxes :
        /\ ~inboxes[i].is_active
        /\ result[i] = "inactive"
        /\ Unseen(mailbox[i]) # {}
        /\ inboxes[i].last_polled_at = NULL

\* C19: a message that was materialized is recorded as processed and flagged
\* seen before the cycle moves on, whatever processed-email records exist, and
\* it is materialized once.
C19_MaterializedIsRecorded ==
    \A i \in InboxIds : BetweenMessages(i) =>
        \A num \in 1..Len(mailbox[i]) :
            LET o == <<i, num>>
            IN (TicketsFor(o) # {} \/ StandbyFor(o) # {})
                => /\ ProcessedFor(o) # {}
                   /\ mailbox[i][num].seen
                   /\ Cardinality(TicketsFor(o)) + Cardinality(StandbyFor(o)) = 1

\* the route of the message resolves to a board
RoutedToBoard(o) ==
    \E tgt \in RouteTargets(o[1], MessageOf(o).subject, {}) : tgt.kind = "board"

\* C20: a message whose route resolved to a board and whose ticket could not be
\* created is skipped: it leaves no standby item (and no ticket) behind.
C20_FailedTicketLeavesNothing ==
    \A k \in 1..Len(standby) : ~RoutedToBoard(standby[k].origin)

\* C17: a ticket's state moves only along STATE_TRANSITIONS, closed and
\* rejected are final, and a refused request changes neither the ticket nor
\* the status-change history.
C17_StateMachine ==
    [][/\ \A k \in 1..Len(tickets) :
            tickets'[k].state # tickets[k].state
                => tickets'[k].state \in STATE_TRANSITIONS[tickets[k].state]
       /\ \A r \in Requests :
            (change[r].pc = "idle" /\ change'[r].pc \in {"not_found", "unprocessable"})
                => UNCHANGED <<tickets, status_changes>>]_vars

\* C18: a token is redeemed successfully at most once; an unknown, used or
\* expired token is refused and changes nothing.
C18_TokenRedeemedOnce ==
    [][/\ \A k \in 1..Len(tokens') : tokens'[k].redemptions <= 1
       /\ \A r \in Requests :
            (redeem[r].pc = "idle" /\ redeem'[r].pc \in TokenTypes)
                => /\ tokens[redeem'[r].token_id].used_at = NULL
                   /\ tokens[redeem'[r].token_id].expires_at >= now
       /\ \A r \in Requests :
            (redeem[r].pc = "idle" /\ redeem'[r].pc \in {"invalid", "expired"})
                => UNCHANGED <<managers, tokens>>]_vars

\* C21: handling one message in one cycle persists at most one routing outcome:
\* one ticket or one standby item, never both and never two of a kind, also
\* when something fails after the ticket was committed.
C21_OneOutcomePerMessage ==
    [][(Len(tickets') - Len(tickets)) + (Len(standby') - Len(standby)) <= 1]_vars

\* C22: a message is flagged seen only in the step that detected it as a
\* duplicate (which writes nothing) or in the step that committed its
\* processed-email record; skipped and failed messages stay unseen.
C22_SeenOnlyIfRecorded ==
    [][\A i \in InboxIds : \A num \in 1..Len(mailbox[i]) :
          (~mailbox[i][num].seen /\ mailbox'[i][num].seen)
              => LET m == MessageOf(<<i, num>>)
                 IN \/ /\ _is_duplicate(processed, i, m.sender, _hash_subject(m.subject), now)
                       /\ UNCHANGED <<tickets, standby, processed>>
                    \/ /\ Len(processed') = Len(processed) + 1
                       /\ processed'[Len(processed')].origin = <<i, num>>
                       /\ processed'[Len(processed')].processed_at = now]_vars

\* one message was flagged behind its record and one as its duplicate (seen,
\* no record of its own)
C22_Witness ==
    \E i \in InboxIds :
        /\ \E num \in 1..Len(mailbox[i]) :
              mailbox[i][num].seen /\ ProcessedFor(<<i, num>>) = {}
        /\ \E num \in 1..Len(mailbox[i]) :
              mailbox[i][num].seen /\ ProcessedFor(<<i, num>>) # {}

\* C23: a polling job is registered for inbox X exactly when X exists and is
\* active, and its interval is X's polling_interval, after any sequence of
\* create, update and delete requests, refused ones included.
C23_JobsFollowInboxes ==
    \A X \in InboxIds :
        JobsOf(X) = IF X \in DOMAIN inboxes /\ inboxes[X].is_active
                    THEN {[id |-> X, minutes |-> inboxes[X].polling_interval]}
                    ELSE {}

\* C24: with no failure of the connector or the store and the job triggered
\* again and again, every message in the mailbox of an active inbox is
\* eventually flagged seen.
C24_EventuallySeen ==
    \A i \in InboxIds : \A n \in 1..MaxMail :
        (Len(mailbox[i]) >= n) ~> (Len(mailbox[i]) >= n /\ mailbox[i][n].seen)

C26_RouteErrorFallsBack ==
    [][\A e \in route_log' \ route_log :
          e.cause = "route_query"
              => /\ ~e.raised
                 /\ tickets' = tickets
                 /\ Len(standby') = Len(standby) + 1
                 /\ standby'[Len(standby')].origin = e.origin
                 /\ standby'[Len(standby')].failure_reason = "no_board_match"]_vars

\* two characters that differ at most in case
SameLetter(a, b) ==
    \/ a = b
    \/ {a, b} \in {{"B", "b"}, {"O", "o"}, {"K", "k"}}

\* needle occurs in haystack, case ignored
OccursIgnoringCase(needle, haystack) ==
    \E off \in 0..(Len(haystack) - Len(needle)) :
        \A k \in 1..Len(needle) : SameLetter(haystack[off + k], needle[k])

\* boards the keyword rule may route a message of inbox i with this subject to
KeywordCandidates(i, subject) ==
    {b \in Boards :
        /\ boards[b].manager_id = inboxes[i].manager_id
        /\ boards[b].exclusive_inbox_id = NULL
        /\ ~boards[b].is_archived
        /\ \E kw \in keywords : kw.board_id = b /\ OccursIgnoringCase(kw.keyword, subject)}

\* inbox i is the exclusive inbox of some board that is not archived
ExclusiveApplies(i) ==
    \E b \in Boards : boards[b].exclusive_inbox_id = i /\ ~boards[b].is_archived

\* C27: when no exclusive-inbox board applies, a message is routed to a board
\* exactly when a keyword of a non-archived board of the inbox's account
\* without exclusive inbox occurs in its subject, case ignored, and then to
\* such a board; no ticket is ever made on an archived board.
C27_KeywordRouting ==
    /\ \A k \in PollTickets :
          LET i == tickets[k].origin[1]
          IN /\ ~boards[tickets[k].board_id].is_archived
             /\ ~ExclusiveApplies(i)
                   => tickets[k].board_id
                          \in KeywordCandidates(i, MessageOf(tickets[k].origin).subject)
    /\ \A k \in 1..Len(standby) :
          LET i == standby[k].origin[1]
          IN standby[k].failure_reason = "no_keyword_match"
                => /\ ~ExclusiveApplies(i)
                   /\ KeywordCandidates(i, MessageOf(standby[k].origin).subject) = {}

\* a ticket routed by a keyword that differs from the subject in case, next to
\* a standby item whose subject carries the keyword of an archived board
C27_Witness ==
    /\ \E k \in PollTickets :
          /\ ~ExclusiveApplies(tickets[k].origin[1])
          /\ \A kw \in keywords : ~Contains(kw.keyword, MessageOf(tickets[k].origin).subject)
    /\ \E k \in 1..Len(standby) : \E kw \in keywords :
          /\ standby[k].failure_reason = "no_keyword_match"
          /\ boards[kw.board_id].is_archived
          /\ boards[kw.board_id].manager_id = inboxes[standby[k].origin[1]].manager_id
          /\ OccursIgnoringCase(kw.keyword, MessageOf(standby[k].origin).subject)

\* processed-email records with the inbox, sender and subject of message o that
\* are at most 60 minutes old
RecentRecords(o) ==
    {k \in 1..Len(processed) :
        /\ processed[k].inbox_id = o[1]
        /\ processed[k].sender_email = MessageOf(o).sender
        /\ processed[k].subject_hash = _hash_subject(MessageOf(o).subject)
        /\ now - processed[k].processed_at <= 60}

\* C28: a message with sender and subject is taken for a duplicate exactly when
\* a processed-email record of the same inbox, sender and subject exists that is
\* not older than 60 minutes; records of other inboxes, senders or subjects and
\* older ones do not count. A duplicate is skipped and the store is left as it is.
C28_DuplicateWindow ==
    [][\A i \in InboxIds :
          (pc[i] = "loop" /\ idx[i] <= Len(emails[i]) /\ <<pc[i], idx[i]>>' # <<pc[i], idx[i]>>)
              => LET o == <<i, emails[i][idx[i]]>>
                 IN (MessageOf(o).sender # <<>> /\ MessageOf(o).subject # <<>>)
                      => /\ RecentRecords(o) # {}
                               => /\ UNCHANGED <<tickets, standby, processed, sent>>
                                  /\ pc'[i] = "loop"
                                  /\ faults_seen' = faults_seen => mailbox'[i][o[2]].seen
                         /\ (RecentRecords(o) = {} /\ faults_seen' = faults_seen)
                               => \/ pc'[i] = "commit"
                                  \/ Len(standby') = Len(standby) + 1]_vars

\* a message was skipped as the duplicate of a record that is exactly 60
\* minutes old
C28_Witness ==
    \E i \in InboxIds : \E num \in 1..Len(mailbox[i]) :
        /\ mailbox[i][num].seen
        /\ ProcessedFor(<<i, num>>) = {}
        /\ RecentRecords(<<i, num>>) # {}
        /\ \A k \in RecentRecords(<<i, num>>) : processed[k].processed_at = now - 60

\* C29: a mailbox session is open only inside a cycle: whichever way
\* poll_inbox returns (normally, after messages raised, after the listing or
\* the final commit failed), the session it opened has been closed.
C29_SessionClosed ==
    /\ \A i \in InboxIds : pc[i] = "idle" => ~session[i]
    /\ \A i \in InboxIds : pc[i] \in {"loop", "commit"} => session[i]

\* a cycle that handled a message ended in the outer handler, on the failure
\* of its final commit, while the other inbox is inside a cycle
C29_Witness ==
    \E i \in DOMAIN inboxes :
        /\ pc[i] = "idle"
        /\ result[i] = "error"
        /\ inboxes[i].last_polled_at = NULL
        /\ \E k \in 1..Len(processed) : processed[k].origin[1] = i
        /\ \E j \in InboxIds \ {i} : session[j]

\* C30: under any interleaving of state-change requests, a ticket's state
\* changes only together with exactly one new status-change record, whose
\* previous_state is the ticket's state just before the change and whose
\* new_state is its state after it; earlier records stay as they are.
C30_HistoryFollowsState ==
    [][/\ \A k \in 1..Len(tickets) :
            tickets'[k].state # tickets[k].state
                => Len(status_changes') = Len(status_changes) + 1
       /\ Len(status_changes') # Len(status_changes)
            => /\ Len(status_changes') = Len(status_changes) + 1
               /\ SubSeq(status_changes', 1, Len(status_changes)) = status_changes
               /\ LET c == status_changes'[Len(status_changes')]
                  IN /\ c.previous_state = tickets[c.ticket_id].state
                     /\ c.new_state = tickets'[c.ticket_id].state]_vars

====
